---- MODULE Spec2Model ----
(***************************************************************************)
(* Model of src/src/git_issues.py: helpers that keep a caller-owned list   *)
(* of issue dictionaries in sync (list open issues, close, complete, and   *)
(* the two bulk operations).                                               *)
(*                                                                         *)
(* Python objects have identity: the collection `issues` is a sequence of  *)
(* references into `heap`, and a returned record is a reference too, so    *)
(* that "returns the record that sits in the collection" and "returns a    *)
(* detached copy" are different states.  A Python str is a sequence of     *)
(* one-character strings, so that strip() and lower() are computed.        *)
(***************************************************************************)
EXTENDS Integers, Sequences, FiniteSets, TLC

VARIABLES
    heap,      \* reference -> [mutable, fields]: every live mapping object
    issues,    \* the caller's collection: a sequence of references
    call,      \* the last helper call and its arguments
    before,    \* [heap, issues] as they were when the last call started
               \* (the current ones while no call has been made)
    result,    \* references returned by the last call (a list, or one record)
    error,     \* "none", or the exception the last call raised
    returned   \* references of the collection's records that close_issue,
               \* complete_issue or a bulk operation has returned so far

vars == <<heap, issues, call, before, result, error, returned>>

----------------------------------------------------------------------------
(* Bounds of the model. *)

MaxIssues == 2      \* longest collection
MaxNumbers == 2     \* longest implemented_issue_numbers argument

----------------------------------------------------------------------------
(* Python values. *)

IntV(n) == [t |-> "int", v |-> n]
StrV(s) == [t |-> "str", v |-> s]
BoolV(b) == [t |-> "bool", v |-> b]
NoneV == [t |-> "none"]

\* bool(value), as Python's `or` and `if` take it
Truthy(value) ==
    CASE value.t = "none" -> FALSE
      [] value.t = "bool" -> value.v
      [] value.t = "int"  -> value.v # 0
      [] value.t = "str"  -> value.v # <<>>

\* a or b
PyOr(a, b) == IF Truthy(a) THEN a ELSE b

\* issue.get(key)
Get(issue, key) == IF key \in DOMAIN issue THEN issue[key] ELSE NoneV

\* issue.setdefault(key, value)
SetDefault(issue, key, value) ==
    IF key \in DOMAIN issue THEN issue ELSE issue @@ (key :> value)

\* issue[key] = value
SetItem(issue, key, value) ==
    IF key \in DOMAIN issue THEN [issue EXCEPT ![key] = value]
    ELSE issue @@ (key :> value)

UpperChars == <<"A","B","C","D","E","F","G","H","I","J","K","L","M",
                "N","O","P","Q","R","S","T","U","V","W","X","Y","Z">>
LowerChars == <<"a","b","c","d","e","f","g","h","i","j","k","l","m",
                "n","o","p","q","r","s","t","u","v","w","x","y","z">>
DigitChars == <<"0","1","2","3","4","5","6","7","8","9">>
Whitespace == {" ", "\t", "\n", "\r"}

\* str.lower() on one character
LowerChar(c) ==
    IF \E i \in 1..Len(UpperChars) : UpperChars[i] = c
    THEN LowerChars[CHOOSE i \in 1..Len(UpperChars) : UpperChars[i] = c]
    ELSE c

\* str.lower()
Lower(s) == [i \in 1..Len(s) |-> LowerChar(s[i])]

RECURSIVE LStrip(_)
LStrip(s) ==
    IF s # <<>> /\ Head(s) \in Whitespace THEN LStrip(Tail(s)) ELSE s

RECURSIVE RStrip(_)
RStrip(s) ==
    IF s # <<>> /\ s[Len(s)] \in Whitespace
    THEN RStrip(SubSeq(s, 1, Len(s) - 1)) ELSE s

\* str.strip()
Strip(s) == RStrip(LStrip(s))

RECURSIVE DigitsOf(_)
DigitsOf(n) ==
    IF n < 10 THEN <<DigitChars[n + 1]>>
    ELSE Append(DigitsOf(n \div 10), DigitChars[(n % 10) + 1])

\* str(value)
Str(value) ==
    CASE value.t = "str"  -> value.v
      [] value.t = "bool" -> IF value.v THEN <<"T","r","u","e">>
                             ELSE <<"F","a","l","s","e">>
      [] value.t = "int"  -> DigitsOf(value.v)
      [] value.t = "none" -> <<"N","o","n","e">>

DigitValue(c) == (CHOOSE i \in 1..Len(DigitChars) : DigitChars[i] = c) - 1

RECURSIVE ParseDigits(_, _)
ParseDigits(s, acc) ==
    IF s = <<>> THEN acc
    ELSE ParseDigits(Tail(s), 10 * acc + DigitValue(Head(s)))

\* int(value), for the values int() accepts: an int, a bool, a string of
\* decimal digits with surrounding whitespace
ToInt(value) ==
    CASE value.t = "int"  -> value.v
      [] value.t = "bool" -> IF value.v THEN 1 ELSE 0
      [] value.t = "str"  -> ParseDigits(Strip(value.v), 0)

OPEN == <<"o","p","e","n">>
CLOSED == <<"c","l","o","s","e","d">>
COMPLETED == <<"c","o","m","p","l","e","t","e","d">>
DONE == <<"d","o","n","e">>
RESOLVED == <<"r","e","s","o","l","v","e","d">>

----------------------------------------------------------------------------
(* The helpers.  A helper that can raise returns a record with `err`; the  *)
(* store `st` = [heap, issues] is threaded through, so that what a helper  *)
(* wrote before it raised stays written.                                   *)

Store(h, seq) == [heap |-> h, issues |-> seq]

\* `name = value` followed by the statements Rest(name)
Bind(value, Rest(_)) == Rest(value)

\* a reference no live object has
NewRef(h) == CHOOSE r \in 1..(Cardinality(DOMAIN h) + 1) :
                 r \notin DOMAIN h /\ \A q \in 1..(r - 1) : q \in DOMAIN h

\* dict(issue)
NewDict(h, fields) == h @@ (NewRef(h) :> [mutable |-> TRUE, fields |-> fields])

SetFields(h, ref, fields) == [h EXCEPT ![ref].fields = fields]

\* mutant: the dict copy is returned but not stored in the sequence
_ensure_mutable_issue_detached(st, index) ==
    LET ref == st.issues[index] IN
    IF st.heap[ref].mutable THEN [st |-> st, ref |-> ref]
    ELSE [st |-> Store(NewDict(st.heap, st.heap[ref].fields), st.issues),
          ref |-> NewRef(st.heap)]

\* mutant: the dict copy is appended to the sequence instead of replacing
\* issues[index]
_ensure_mutable_issue_append(st, index) ==
    LET ref == st.issues[index] IN
    IF st.heap[ref].mutable THEN [st |-> st, ref |-> ref]
    ELSE [st |-> Store(NewDict(st.heap, st.heap[ref].fields),
                       Append(st.issues, NewRef(st.heap))),
          ref |-> NewRef(st.heap)]

_ensure_mutable_issue(st, index) ==
    LET ref == st.issues[index] IN
    IF st.heap[ref].mutable THEN [st |-> st, ref |-> ref]
    ELSE LET new == NewRef(st.heap) IN
         [st |-> Store(NewDict(st.heap, st.heap[ref].fields),
                       [st.issues EXCEPT ![index] = new]),
          ref |-> new]

_normalise_state(value) ==
    IF value.t = "none" THEN OPEN ELSE Lower(Strip(Str(value)))

IdentifierKeys == <<"number", "id", "issue_id", "issueNumber">>

_issue_identifier(issue) ==
    IF \E k \in 1..Len(IdentifierKeys) : IdentifierKeys[k] \in DOMAIN issue
    THEN LET k == CHOOSE k \in 1..Len(IdentifierKeys) :
                      /\ IdentifierKeys[k] \in DOMAIN issue
                      /\ \A j \in 1..(k - 1) : IdentifierKeys[j] \notin DOMAIN issue
         IN [err |-> "none", identifier |-> ToInt(issue[IdentifierKeys[k]])]
    ELSE [err |-> "KeyError", identifier |-> 0]

_ensure_issue_number(h, ref) ==
    Bind(_issue_identifier(h[ref].fields), LAMBDA r :
    IF r.err # "none" THEN [err |-> r.err, heap |-> h, identifier |-> 0]
    ELSE [err |-> "none",
          heap |-> SetFields(h, ref,
                       SetDefault(h[ref].fields, "number", IntV(r.identifier))),
          identifier |-> r.identifier])

\* mutant: `is not None` tests in place of `or`: a present state field decides,
\* whatever its value
_get_state_present(issue) ==
    LET state == IF "state" \in DOMAIN issue THEN issue["state"]
                 ELSE Get(issue, "status") IN
    IF "state" \notin DOMAIN issue /\ state.t = "none"
    THEN IF Truthy(PyOr(Get(issue, "closed"), Get(issue, "completed")))
         THEN CLOSED ELSE OPEN
    ELSE _normalise_state(state)

_get_state(issue) ==
    Bind(PyOr(Get(issue, "state"), Get(issue, "status")), LAMBDA state :
    IF state.t = "none"
    THEN IF Truthy(PyOr(Get(issue, "closed"), Get(issue, "completed")))
         THEN CLOSED ELSE OPEN
    ELSE _normalise_state(state))

\* mutant: the status field is not written
_set_state_no_status(issue, state) ==
    LET normalised == _normalise_state(state) IN
    SetItem(SetItem(issue, "state", StrV(normalised)),
            "closed", BoolV(normalised = CLOSED))

_set_state(issue, state) ==
    Bind(_normalise_state(state), LAMBDA normalised :
    SetItem(SetItem(SetItem(issue, "state", StrV(normalised)),
                    "status", StrV(normalised)),
            "closed", BoolV(normalised = CLOSED)))

_is_open(issue) ==
    _get_state(issue) \notin {CLOSED, COMPLETED, DONE, RESOLVED}

\* list_open_issues: the loop from issues[index] on, `open_issues` so far
RECURSIVE list_open_loop(_, _, _)
list_open_loop(st, index, open_issues) ==
    IF index > Len(st.issues)
    THEN [st |-> st, err |-> "none", refs |-> open_issues]
    ELSE Bind(st.heap[st.issues[index]].fields, LAMBDA issue :
         IF _is_open(issue)
         THEN Bind(_issue_identifier(issue), LAMBDA id :
              Bind(IF id.err = "none"
                   THEN SetDefault(issue, "number", IntV(id.identifier))
                   ELSE issue, LAMBDA copy :
              list_open_loop(Store(NewDict(st.heap, copy), st.issues),
                             index + 1, Append(open_issues, NewRef(st.heap)))))
         ELSE list_open_loop(st, index + 1, open_issues))

\* mutant: no dict(issue): the records themselves are returned
RECURSIVE list_open_alias_loop(_, _, _)
list_open_alias_loop(st, index, open_issues) ==
    IF index > Len(st.issues)
    THEN [st |-> st, err |-> "none", refs |-> open_issues]
    ELSE LET ref == st.issues[index]
             issue == st.heap[ref].fields IN
         IF _is_open(issue)
         THEN LET id == _issue_identifier(issue)
                  copy == IF id.err = "none"
                          THEN SetDefault(issue, "number", IntV(id.identifier))
                          ELSE issue
              IN list_open_alias_loop(Store(SetFields(st.heap, ref, copy), st.issues),
                                      index + 1, Append(open_issues, ref))
         ELSE list_open_alias_loop(st, index + 1, open_issues)

list_open_issues_alias(st) == list_open_alias_loop(st, 1, <<>>)

list_open_issues(st) == list_open_loop(st, 1, <<>>)

\* _find_issue_index: the scan from `index` on
RECURSIVE find_issue_loop(_, _, _)
find_issue_loop(st, issue_number, index) ==
    IF index > Len(st.issues)
    THEN [st |-> st, err |-> "IssueNotFoundError", index |-> 0]
    ELSE Bind(_ensure_mutable_issue(st, index), LAMBDA m :
         Bind(_ensure_issue_number(m.st.heap, m.ref), LAMBDA e :
         IF e.err # "none"
         THEN [st |-> m.st, err |-> e.err, index |-> 0]
         ELSE IF e.identifier = issue_number
              THEN [st |-> Store(e.heap, m.st.issues), err |-> "none",
                    index |-> index]
              ELSE find_issue_loop(Store(e.heap, m.st.issues),
                                   issue_number, index + 1)))

\* mutant: after the loop the last index is returned instead of raising
_find_issue_index_last(st, issue_number) ==
    LET f == find_issue_loop(st, issue_number, 1) IN
    IF f.err = "IssueNotFoundError" /\ Len(f.st.issues) > 0
    THEN [st |-> f.st, err |-> "none", index |-> Len(f.st.issues)]
    ELSE f

_find_issue_index(st, issue_number) == find_issue_loop(st, issue_number, 1)

close_issue(st, issue_number) ==
    Bind(_find_issue_index(st, issue_number), LAMBDA f :
    IF f.err # "none" THEN [st |-> f.st, err |-> f.err, ref |-> 0]
    ELSE Bind(_ensure_mutable_issue(f.st, f.index), LAMBDA m :
         Bind(_ensure_issue_number(m.st.heap, m.ref), LAMBDA e :
         IF e.err # "none" THEN [st |-> m.st, err |-> e.err, ref |-> 0]
         ELSE [st |-> Store(SetFields(e.heap, m.ref,
                                _set_state(e.heap[m.ref].fields, StrV(CLOSED))),
                            m.st.issues),
               err |-> "none", ref |-> m.ref])))

complete_issue(st, issue_number) ==
    Bind(close_issue(st, issue_number), LAMBDA c :
    IF c.err # "none" THEN c
    ELSE [st |-> Store(SetFields(c.st.heap, c.ref,
                           SetItem(c.st.heap[c.ref].fields, "completed", BoolV(TRUE))),
                       c.st.issues),
          err |-> "none", ref |-> c.ref])

\* close_implemented_issues: the loop from the k-th number on, `closed` so far
RECURSIVE close_implemented_loop(_, _, _, _)
close_implemented_loop(st, numbers, k, closed) ==
    IF k > Len(numbers) THEN [st |-> st, err |-> "none", refs |-> closed]
    ELSE Bind(close_issue(st, numbers[k]), LAMBDA c :
         CASE c.err = "none" ->
                  close_implemented_loop(c.st, numbers, k + 1, Append(closed, c.ref))
           [] c.err = "IssueNotFoundError" ->
                  close_implemented_loop(c.st, numbers, k + 1, closed)
           [] OTHER -> [st |-> c.st, err |-> c.err, refs |-> <<>>])

\* mutant: `break` in place of `continue`
RECURSIVE close_implemented_break_loop(_, _, _, _)
close_implemented_break_loop(st, numbers, k, closed) ==
    IF k > Len(numbers) THEN [st |-> st, err |-> "none", refs |-> closed]
    ELSE LET c == close_issue(st, numbers[k]) IN
         CASE c.err = "none" ->
                  close_implemented_break_loop(c.st, numbers, k + 1,
                                               Append(closed, c.ref))
           [] c.err = "IssueNotFoundError" ->
                  [st |-> c.st, err |-> "none", refs |-> closed]
           [] OTHER -> [st |-> c.st, err |-> c.err, refs |-> <<>>]

close_implemented_issues_break(st, implemented_issue_numbers) ==
    close_implemented_break_loop(st, implemented_issue_numbers, 1, <<>>)

\* mutant: `except (IssueNotFoundError, KeyError)`
RECURSIVE close_implemented_swallow_loop(_, _, _, _)
close_implemented_swallow_loop(st, numbers, k, closed) ==
    IF k > Len(numbers) THEN [st |-> st, err |-> "none", refs |-> closed]
    ELSE LET c == close_issue(st, numbers[k]) IN
         IF c.err = "none"
         THEN close_implemented_swallow_loop(c.st, numbers, k + 1,
                                             Append(closed, c.ref))
         ELSE close_implemented_swallow_loop(c.st, numbers, k + 1, closed)

close_implemented_issues_swallow(st, implemented_issue_numbers) ==
    close_implemented_swallow_loop(st, implemented_issue_numbers, 1, <<>>)

close_implemented_issues(st, implemented_issue_numbers) ==
    close_implemented_loop(st, implemented_issue_numbers, 1, <<>>)

\* complete_open_issues: the loop from `index` on; target_numbers is None
\* when restricted is FALSE
RECURSIVE complete_open_loop(_, _, _, _, _)
complete_open_loop(st, restricted, target_numbers, index, completed) ==
    IF index > Len(st.issues)
    THEN [st |-> st, err |-> "none", refs |-> completed]
    ELSE Bind(_ensure_mutable_issue(st, index), LAMBDA m :
         Bind(_ensure_issue_number(m.st.heap, m.ref), LAMBDA e :
         IF e.err # "none" THEN [st |-> m.st, err |-> e.err, refs |-> <<>>]
         ELSE IF restricted /\ e.identifier \notin target_numbers
         THEN complete_open_loop(Store(e.heap, m.st.issues), restricted,
                                 target_numbers, index + 1, completed)
         ELSE IF _is_open(e.heap[m.ref].fields)
         THEN Bind(complete_issue(Store(e.heap, m.st.issues), e.identifier),
              LAMBDA c :
              IF c.err # "none" THEN [st |-> c.st, err |-> c.err, refs |-> <<>>]
              ELSE complete_open_loop(c.st, restricted, target_numbers,
                                      index + 1, Append(completed, c.ref)))
         ELSE complete_open_loop(Store(e.heap, m.st.issues), restricted,
                                 target_numbers, index + 1, completed)))

\* mutant: the restriction to target_numbers is not applied
complete_open_issues_unrestricted(st, restricted, target_numbers) ==
    complete_open_loop(st, FALSE, target_numbers, 1, <<>>)

complete_open_issues(st, restricted, target_numbers) ==
    complete_open_loop(st, restricted, target_numbers, 1, <<>>)

----------------------------------------------------------------------------
(* The caller: the collections it builds and the calls it makes. *)

Range(seq) == {seq[i] : i \in 1..Len(seq)}

\* the objects a caller can still reach: the collection's and the returned ones
Live(h, seq, refs) == [r \in (Range(seq) \cup Range(refs)) |-> h[r]]

EmptyDict == [k \in {} |-> NoneV]

IN_PROGRESS == <<"I","n","_","P","r","o","g","r","e","s","s"," ">>

Dict(fields) == [mutable |-> TRUE, fields |-> fields]

\* a read-only Mapping (_ensure_mutable_issue's case)
Frozen(fields) == [mutable |-> FALSE, fields |-> fields]

\* the records a collection is built from: the test fixture's kinds of record
\* (number or id, state or status or a closed flag), a record under each other
\* recognised identifier key, one with no identifier at all, one read-only
IssueShapes ==
    { Dict([number |-> IntV(1), state |-> StrV(OPEN)]),
      Dict([number |-> IntV(2), state |-> StrV(CLOSED)]),
      Dict([id |-> IntV(1), closed |-> BoolV(FALSE)]),
      Dict([issue_id |-> StrV(<<" ", "2">>), status |-> StrV(IN_PROGRESS)]),
      Dict([number |-> IntV(2), issueNumber |-> IntV(1), closed |-> BoolV(TRUE)]),
      Dict([title |-> StrV(<<"t">>)]),
      Frozen([id |-> IntV(2), status |-> StrV(OPEN)]) }

\* issue numbers a caller asks for; no record has number 999
QueryNumbers == {1, 2, 999}

SeqsUpTo(S, n) == UNION { [1..k -> S] : k \in 0..n }

NoCall == [op |-> "none", number |-> 0, numbers |-> <<>>,
           restricted |-> FALSE, targets |-> {}]

InitWith(shapes, maxlen) ==
    /\ \E n \in 0..maxlen : \E h \in [1..n -> shapes] :
          /\ heap = h
          /\ issues = [i \in 1..n |-> i]
          /\ before = Store(h, [i \in 1..n |-> i])
    /\ call = NoCall
    /\ result = <<>>
    /\ error = "none"
    /\ returned = {}

Init == InitWith(IssueShapes, MaxIssues)

\* the state after the helper call c that ended as `r` ([st, err, refs]);
\* `marks`: the call returns records of the collection
Done(c, r, marks) ==
    /\ call.op = "none"
    /\ heap' = Live(r.st.heap, r.st.issues, r.refs)
    /\ issues' = r.st.issues
    /\ call' = c
    /\ before' = Store(Live(heap, issues, <<>>), issues)
    /\ result' = r.refs
    /\ error' = r.err
    /\ returned' = (returned \cap Range(r.st.issues))
                       \cup (IF marks THEN Range(r.refs) ELSE {})

One(r) == [st |-> r.st, err |-> r.err,
           refs |-> IF r.err = "none" THEN <<r.ref>> ELSE <<>>]

Current == Store(Live(heap, issues, <<>>), issues)

ListOpenIssues ==
    Done([NoCall EXCEPT !.op = "list_open_issues"], list_open_issues(Current), FALSE)

CloseIssue(n) ==
    Done([NoCall EXCEPT !.op = "close_issue", !.number = n],
         One(close_issue(Current, n)), TRUE)

CompleteIssue(n) ==
    Done([NoCall EXCEPT !.op = "complete_issue", !.number = n],
         One(complete_issue(Current, n)), TRUE)

CloseImplementedIssues(numbers) ==
    Done([NoCall EXCEPT !.op = "close_implemented_issues", !.numbers = numbers],
         close_implemented_issues(Current, numbers), TRUE)

CompleteOpenIssues(restricted, targets) ==
    Done([NoCall EXCEPT !.op = "complete_open_issues",
                        !.restricted = restricted, !.targets = targets],
         complete_open_issues(Current, restricted, targets), TRUE)

\* the caller changes a field of a copy list_open_issues returned
\* (tests: open_issues[0]["state"] = "closed")
MutateReturnedCopy(k, key, value) ==
    /\ call.op = "list_open_issues"
    /\ k \in 1..Len(result)
    /\ heap' = SetFields(heap, result[k], SetItem(heap[result[k]].fields, key, value))
    /\ call' = [NoCall EXCEPT !.op = "mutate_copy", !.number = k]
    /\ UNCHANGED <<issues, before, result, error, returned>>

CopyWrites == { <<"state", StrV(CLOSED)>>, <<"completed", BoolV(TRUE)>>,
                <<"number", IntV(999)>> }

\* the caller drops what the last call returned and is ready for the next call
Discard ==
    /\ call.op # "none"
    /\ heap' = Live(heap, issues, <<>>)
    /\ call' = NoCall
    /\ before' = Store(Live(heap, issues, <<>>), issues)
    /\ result' = <<>>
    /\ error' = "none"
    /\ UNCHANGED <<issues, returned>>

Next ==
    \/ ListOpenIssues
    \/ \E n \in QueryNumbers : CloseIssue(n)
    \/ \E n \in QueryNumbers : CompleteIssue(n)
    \/ \E numbers \in SeqsUpTo(QueryNumbers, MaxNumbers) : CloseImplementedIssues(numbers)
    \/ CompleteOpenIssues(FALSE, {})
    \/ \E targets \in SUBSET QueryNumbers : CompleteOpenIssues(TRUE, targets)
    \/ \E k \in 1..MaxIssues, w \in CopyWrites : MutateReturnedCopy(k, w[1], w[2])
    \/ Discard

Spec == Init /\ [][Next]_vars

\* values of a state or status field: missing, None, empty, to be trimmed and
\* lowercased
StateValues == { NoneV, StrV(<<>>), StrV(<<" ","C","l","o","s","e","d"," ">>),
                 StrV(<<"O","P","E","N">>) }

Optional(key, values) == {EmptyDict} \cup { key :> v : v \in values }

\* one record under each combination of state, status, closed and completed
StateShapes ==
    { Dict([number |-> IntV(1)] @@ a @@ b @@ c @@ d) :
        a \in Optional("state", StateValues),
        b \in Optional("status", StateValues),
        c \in Optional("closed", {BoolV(FALSE), BoolV(TRUE)}),
        d \in Optional("completed", {BoolV(TRUE)}) }

\* the calls on a collection of one record, over every shape of its state
InitState == InitWith(StateShapes, 1)

SpecState == InitState /\ [][Next]_vars

----------------------------------------------------------------------------
(* Vocabulary of the properties: the collection before and after the last  *)
(* call, position by position.                                             *)

Pre(i) == before.heap[before.issues[i]].fields
Post(i) == heap[issues[i]].fields
Fields(ref) == heap[ref].fields
Positions == 1..Len(before.issues)

SameValue(a, b) == a.t = b.t /\ (a.t = "none" \/ a.v = b.v)

SameDict(f, g) ==
    DOMAIN f = DOMAIN g /\ \A k \in DOMAIN f : SameValue(f[k], g[k])

\* f and g have the same keys among `keys`, with the same values
SameOn(f, g, keys) ==
    \A k \in keys : /\ (k \in DOMAIN f) = (k \in DOMAIN g)
                    /\ k \in DOMAIN f => SameValue(f[k], g[k])

StateKeys == {"state", "status", "closed", "completed"}

HasIdentifier(f) == _issue_identifier(f).err = "none"
Identifier(f) == _issue_identifier(f).identifier
Resolves(f, n) == HasIdentifier(f) /\ Identifier(f) = n

\* first position whose record resolves to n, Len + 1 when there is none
FirstMatch(n) ==
    IF \E i \in Positions : Resolves(Pre(i), n)
    THEN CHOOSE i \in Positions :
             Resolves(Pre(i), n) /\ \A j \in 1..(i - 1) : ~Resolves(Pre(j), n)
    ELSE Len(before.issues) + 1

\* first position whose record has no identifier, Len + 1 when there is none
FirstUnidentified ==
    IF \E i \in Positions : ~HasIdentifier(Pre(i))
    THEN CHOOSE i \in Positions :
             ~HasIdentifier(Pre(i)) /\ \A j \in 1..(i - 1) : HasIdentifier(Pre(j))
    ELSE Len(before.issues) + 1

AllIdentified == \A i \in Positions : HasIdentifier(Pre(i))

SameLength == Len(issues) = Len(before.issues)

IsClosedRecord(f) ==
    /\ SameValue(Get(f, "state"), StrV(CLOSED))
    /\ SameValue(Get(f, "status"), StrV(CLOSED))
    /\ SameValue(Get(f, "closed"), BoolV(TRUE))

IsCompletedRecord(f) ==
    IsClosedRecord(f) /\ SameValue(Get(f, "completed"), BoolV(TRUE))

----------------------------------------------------------------------------
\* C1 as stated: close_issue on a number no record resolves to raises
\* IssueNotFoundError and leaves every record with exactly the fields and
\* values it had.
C1_Unchanged ==
    (call.op = "close_issue"
        /\ \A i \in Positions : ~Resolves(Pre(i), call.number))
    => /\ error = "IssueNotFoundError"
       /\ SameLength
       /\ \A i \in Positions : SameDict(Post(i), Pre(i))

\* C1 amended: close_issue on a number no record resolves to returns nothing
\* and raises IssueNotFoundError when every record has an identifier, KeyError
\* when some record has none; no field a record had is changed or removed, and
\* the records scanned before the failure (all of them, or those before the
\* first record without identifier) gain number = their identifier if they
\* had no number field.
C1_OnlyNumberAdded ==
    (call.op = "close_issue"
        /\ \A i \in Positions : ~Resolves(Pre(i), call.number))
    => /\ error = (IF AllIdentified THEN "IssueNotFoundError" ELSE "KeyError")
       /\ result = <<>>
       /\ SameLength
       /\ \A i \in Positions :
             SameDict(Post(i),
                      IF i < FirstUnidentified
                      THEN SetDefault(Pre(i), "number", IntV(Identifier(Pre(i))))
                      ELSE Pre(i))

\* an unknown number was asked for, the scan wrote a number field, then raised
C1_Witness ==
    /\ call.op = "close_issue"
    /\ error = "IssueNotFoundError"
    /\ \A i \in Positions : ~Resolves(Pre(i), call.number)
    /\ \E i \in Positions : "number" \notin DOMAIN Pre(i) /\ "number" \in DOMAIN Post(i)
    /\ \E i \in Positions : _is_open(Pre(i))

\* C2: complete_open_issues without restriction, on a collection whose records
\* all have an identifier, completes every record that was open and leaves the
\* state fields of every record that was not open as they were.
C2_CompletesEveryOpen ==
    (call.op = "complete_open_issues" /\ ~call.restricted /\ AllIdentified)
    => /\ SameLength
       /\ \A i \in Positions :
             IF _is_open(Pre(i))
             THEN /\ SameValue(Get(Post(i), "state"), StrV(CLOSED))
                  /\ SameValue(Get(Post(i), "completed"), BoolV(TRUE))
             ELSE SameOn(Pre(i), Post(i), StateKeys)

\* C3: a record returned by close_issue, complete_issue or a bulk operation has
\* state = status = "closed" and closed = true, and every record returned so
\* far still has state = status and closed = (state = "closed") after whatever
\* calls followed.
C3_Consistent ==
    /\ call.op \in {"close_issue", "complete_issue", "close_implemented_issues",
                    "complete_open_issues"}
          => \A k \in 1..Len(result) : IsClosedRecord(Fields(result[k]))
    /\ \A ref \in returned :
          /\ ref \in Range(issues)
          /\ SameValue(Get(Fields(ref), "state"), Get(Fields(ref), "status"))
          /\ Get(Fields(ref), "state").t = "str"
          /\ SameValue(Get(Fields(ref), "closed"),
                       BoolV(Get(Fields(ref), "state").v = CLOSED))

\* a record returned by an earlier call, after a later call returned another
C3_Witness ==
    /\ call.op \in {"close_implemented_issues", "complete_open_issues"}
    /\ result # <<>>
    /\ \E ref \in returned : ref \notin Range(result)

\* positions of the records that were open, in order
OpenPositions ==
    SelectSeq([i \in Positions |-> i], LAMBDA i : _is_open(Pre(i)))

CollectionUntouched ==
    /\ issues = before.issues
    /\ \A i \in Positions :
          /\ heap[issues[i]].mutable = before.heap[issues[i]].mutable
          /\ SameDict(Post(i), Pre(i))

\* C4: list_open_issues returns, in collection order, one new object per open
\* record and none for the others, with every field of the record (plus the
\* resolved number when the record had none); the call changes nothing in
\* the collection; changing a field of a returned copy changes nothing in it.
C4_Copies ==
    /\ call.op = "list_open_issues" =>
          /\ error = "none"
          /\ CollectionUntouched
          /\ Len(result) = Len(OpenPositions)
          /\ \A k \in 1..Len(result) :
                /\ result[k] \notin Range(issues)
                /\ \A j \in 1..Len(result) : result[j] = result[k] => j = k
                /\ SameOn(Fields(result[k]), Pre(OpenPositions[k]),
                          DOMAIN Pre(OpenPositions[k]))
                /\ DOMAIN Fields(result[k]) \subseteq
                       DOMAIN Pre(OpenPositions[k]) \cup {"number"}
    /\ call.op = "mutate_copy" => CollectionUntouched

\* a copy was changed after a call that returned some records and not others
C4_Witness ==
    /\ call.op = "mutate_copy"
    /\ Len(result) < Len(issues)
    /\ \E k \in 1..Len(result) :
          ~SameOn(Fields(result[k]), Pre(OpenPositions[k]), {"state", "number"})

\* the input numbers some record resolves to, in input order
MatchedNumbers ==
    SelectSeq(call.numbers, LAMBDA n : \E i \in Positions : Resolves(Pre(i), n))

\* C5: on a collection whose records all have an identifier,
\* close_implemented_issues never raises; it returns, in input order, one
\* closed record of the collection per input number that some record resolves
\* to, and nothing for the other numbers; the state fields of every record
\* that is not the first match of an input number are as they were.
C5_SkipsUnknown ==
    (call.op = "close_implemented_issues" /\ AllIdentified)
    => /\ error = "none"
       /\ SameLength
       /\ Len(result) = Len(MatchedNumbers)
       /\ \A k \in 1..Len(result) :
             /\ result[k] = issues[FirstMatch(MatchedNumbers[k])]
             /\ Resolves(Fields(result[k]), MatchedNumbers[k])
             /\ IsClosedRecord(Fields(result[k]))
       /\ \A i \in Positions :
             (\A k \in 1..Len(call.numbers) : FirstMatch(call.numbers[k]) # i)
             => SameOn(Pre(i), Post(i), StateKeys)

\* an unknown number came first and was skipped, the known one after it closed
C5_Witness ==
    /\ call.op = "close_implemented_issues"
    /\ AllIdentified
    /\ Len(call.numbers) = 2
    /\ \A i \in Positions : ~Resolves(Pre(i), call.numbers[1])
    /\ Len(result) = 1
    /\ _is_open(before.heap[before.issues[FirstMatch(call.numbers[2])]].fields)

\* C6: complete_open_issues restricted to the numbers S returns only records
\* whose number is in S, and every record whose number is not in S (or that
\* has no identifier) keeps its state, status, closed and completed fields.
C6_OnlySelected ==
    (call.op = "complete_open_issues" /\ call.restricted)
    => /\ SameLength
       /\ \A k \in 1..Len(result) :
             /\ HasIdentifier(Fields(result[k]))
             /\ Identifier(Fields(result[k])) \in call.targets
       /\ \A i \in Positions :
             ~(HasIdentifier(Pre(i)) /\ Identifier(Pre(i)) \in call.targets)
             => SameOn(Pre(i), Post(i), StateKeys)

\* one record was completed while an open one outside S stayed open and a
\* closed one outside S stayed without a completed flag
C6_Witness ==
    /\ call.op = "complete_open_issues"
    /\ call.restricted
    /\ result # <<>>
    /\ \E i \in Positions :
          /\ Resolves(Pre(i), 2)
          /\ 2 \notin call.targets
          /\ ~_is_open(Post(i))
          /\ "completed" \notin DOMAIN Post(i)

\* C7 as stated: whenever some record resolves to n, complete_issue(n)
\* returns a record of the collection that resolves to n and is closed and
\* completed; otherwise it fails as close_issue fails.
C7_AlwaysCompletes ==
    call.op = "complete_issue"
    => IF \E i \in Positions : Resolves(Pre(i), call.number)
       THEN /\ error = "none"
            /\ Len(result) = 1
            /\ result[1] \in Range(issues)
            /\ Resolves(Fields(result[1]), call.number)
            /\ IsCompletedRecord(Fields(result[1]))
       ELSE /\ error # "none"
            /\ error = close_issue(before, call.number).err

\* C7 amended: when the first record resolving to n comes before every record
\* without identifier, complete_issue(n) returns that first record as it sits
\* in the collection, closed and completed, whatever its state was; when a
\* record without identifier comes first the call raises KeyError; when no
\* record resolves to n and every record has an identifier it raises
\* IssueNotFoundError.
C7_CompletesFirstMatch ==
    call.op = "complete_issue"
    => /\ SameLength
       /\ IF FirstMatch(call.number) < FirstUnidentified
          THEN /\ error = "none"
               /\ result = <<issues[FirstMatch(call.number)]>>
               /\ Resolves(Fields(result[1]), call.number)
               /\ IsCompletedRecord(Fields(result[1]))
          ELSE /\ result = <<>>
               /\ error = (IF AllIdentified THEN "IssueNotFoundError" ELSE "KeyError")

\* the completed record was a read-only mapping: the dict that replaced it in
\* the collection is the one returned
C7_Witness ==
    /\ call.op = "complete_issue"
    /\ error = "none"
    /\ ~before.heap[before.issues[FirstMatch(call.number)]].mutable
    /\ result = <<issues[FirstMatch(call.number)]>>

\* position k of `numbers` is the first whose scan reaches the record without
\* identifier: no record before that one resolves to numbers[k]
FirstFailing(numbers) ==
    IF \E k \in 1..Len(numbers) : FirstMatch(numbers[k]) > FirstUnidentified
    THEN CHOOSE k \in 1..Len(numbers) :
             /\ FirstMatch(numbers[k]) > FirstUnidentified
             /\ \A j \in 1..(k - 1) : FirstMatch(numbers[j]) < FirstUnidentified
    ELSE Len(numbers) + 1

\* the record at position i, before the first record without identifier, is
\* one complete_open_issues was asked to complete
Selected(i) ==
    /\ i < FirstUnidentified
    /\ _is_open(Pre(i))
    /\ call.restricted => Identifier(Pre(i)) \in call.targets

\* C8: a bulk operation that reaches a record without identifier raises
\* KeyError; what it closed or completed before that stays closed or completed,
\* the state fields of the records it had not dealt with are as they were, and
\* the record without identifier and every record after it have all their
\* fields as they were.  list_open_issues does not raise: an open record
\* without identifier is returned as a copy without a number key.
C8_NoRollback ==
    /\ (call.op = "complete_open_issues" /\ ~AllIdentified)
       => /\ error = "KeyError"
          /\ result = <<>>
          /\ SameLength
          /\ \A i \in Positions :
                /\ i >= FirstUnidentified => SameDict(Post(i), Pre(i))
                /\ Selected(i)
                      => IsCompletedRecord(Post(FirstMatch(Identifier(Pre(i)))))
                /\ (\A j \in Positions :
                        Selected(j) => FirstMatch(Identifier(Pre(j))) # i)
                      => SameOn(Pre(i), Post(i), StateKeys)
    /\ (call.op = "close_implemented_issues" /\ ~AllIdentified)
       => /\ error = (IF FirstFailing(call.numbers) <= Len(call.numbers)
                      THEN "KeyError" ELSE "none")
          /\ SameLength
          /\ \A i \in Positions :
                /\ i >= FirstUnidentified => SameDict(Post(i), Pre(i))
                /\ (\A k \in 1..Len(call.numbers) :
                        k < FirstFailing(call.numbers)
                        => FirstMatch(call.numbers[k]) # i)
                      => SameOn(Pre(i), Post(i), StateKeys)
          /\ \A k \in 1..Len(call.numbers) :
                k < FirstFailing(call.numbers)
                => IsClosedRecord(Post(FirstMatch(call.numbers[k])))
    /\ call.op = "list_open_issues"
       => /\ error = "none"
          /\ Len(result) = Len(OpenPositions)
          /\ \A k \in 1..Len(result) :
                ~HasIdentifier(Pre(OpenPositions[k]))
                => "number" \notin DOMAIN Fields(result[k])

\* a bulk call raised KeyError after it had closed an open record, and an open
\* record after the one without identifier is still open
C8_Witness ==
    /\ call.op \in {"complete_open_issues", "close_implemented_issues"}
    /\ error = "KeyError"
    /\ \E i \in Positions :
          i < FirstUnidentified /\ _is_open(Pre(i)) /\ IsClosedRecord(Post(i))

\* list_open_issues returned the copy of a record without identifier
C8_ListWitness ==
    /\ call.op = "list_open_issues"
    /\ \E k \in 1..Len(result) : "number" \notin DOMAIN Fields(result[k])

\* the values C9 allows for a decisive field: its trimmed, lowercased text,
\* and "open" (or the empty text) for None and for the empty string
C9_Normalised(value) ==
    IF value.t = "none" \/ (value.t = "str" /\ value.v = <<>>) THEN {OPEN, <<>>}
    ELSE {Lower(Strip(Str(value)))}

\* C9 as stated: when the state field is present _get_state is its normalised
\* value, otherwise when the status field is present it is the normalised
\* value of status; the flags count only when both are missing.
C9_PresentFieldDecides ==
    \A i \in Positions :
        LET f == Pre(i) IN
        IF "state" \in DOMAIN f THEN _get_state(f) \in C9_Normalised(f["state"])
        ELSE IF "status" \in DOMAIN f THEN _get_state(f) \in C9_Normalised(f["status"])
        ELSE _get_state(f) = IF Truthy(Get(f, "closed")) \/ Truthy(Get(f, "completed"))
                             THEN CLOSED ELSE OPEN

\* the state the amended C9 gives a record
C9_State(f) ==
    IF "state" \in DOMAIN f /\ Truthy(f["state"])
    THEN Lower(Strip(Str(f["state"])))
    ELSE IF "status" \in DOMAIN f /\ f["status"].t # "none"
    THEN Lower(Strip(Str(f["status"])))
    ELSE IF Truthy(Get(f, "closed")) \/ Truthy(Get(f, "completed"))
    THEN CLOSED ELSE OPEN

\* C9 amended: _get_state is the trimmed, lowercased state field when that
\* field is present and truthy (not None, not empty); otherwise the trimmed,
\* lowercased status field when that is present and not None; otherwise
\* "closed" when the closed or the completed flag is truthy and "open" when
\* not.  list_open_issues returns a record exactly when that state is none of
\* closed, completed, done, resolved.
C9_TruthyFieldDecides ==
    /\ \A i \in Positions : _get_state(Pre(i)) = C9_State(Pre(i))
    /\ call.op = "list_open_issues"
       => Len(result) = Cardinality({ i \in Positions :
              C9_State(Pre(i)) \notin {CLOSED, COMPLETED, DONE, RESOLVED} })

\* a record whose state field is empty and whose status says closed was left
\* out by list_open_issues
C9_Witness ==
    /\ call.op = "list_open_issues"
    /\ result = <<>>
    /\ \E i \in Positions :
          /\ SameValue(Get(Pre(i), "state"), StrV(<<>>))
          /\ "status" \in DOMAIN Pre(i)
          /\ Pre(i)["status"].t = "str"
          /\ Pre(i)["status"].v # <<>>

\* C10: no step adds or removes a record or changes the identifier a position
\* resolves to, and no record that is not open is open after the step.
C10_Monotone ==
    [][ /\ Len(issues') = Len(issues)
        /\ \A i \in 1..Len(issues) :
              /\ _issue_identifier(heap'[issues'[i]].fields)
                    = _issue_identifier(heap[issues[i]].fields)
              /\ ~_is_open(heap[issues[i]].fields)
                    => ~_is_open(heap'[issues'[i]].fields) ]_vars

\* a bulk call failed on a record without identifier after an earlier call had
\* closed a record, which is still not open
C10_Witness ==
    /\ call.op = "complete_open_issues"
    /\ error = "KeyError"
    /\ returned # {}
    /\ \E i \in Positions : ~_is_open(Pre(i)) /\ ~_is_open(Post(i))

====
